---- MODULE Spec2Model ----
(***************************************************************************)
(* Model of the DigitalOcean cloud provider's Manager                      *)
(* (cluster-autoscaler/cloudprovider/digitalocean/digitalocean_manager.go):*)
(* newManager, Manager.Refresh and the node-group cache they maintain,     *)
(* together with the provider's NodeGroupForNode lookup over that cache.   *)
(***************************************************************************)
EXTENDS Integers, Sequences, FiniteSets, TLC

(* ---------------------------- bounds ----------------------------------- *)

\* number of distinct node pools the cluster may hold
NumPoolIDs == 2

\* largest number of pools in one ListNodePools response
MaxPools == 2

(* ---------------------------- values ----------------------------------- *)

\* a nil error
Nil == "nil"

\* a nil *Manager
NilManager == [nil |-> TRUE]

\* the outcome of a call Refresh returned before making
NotCalled == [err |-> TRUE, slugs |-> {}, pools |-> << >>]

\* a nil cloudprovider.NodeGroup
NilGroup == [nil |-> TRUE]

ErrNoToken == "access token is not provided"
ErrNoClusterID == "cluster ID is not provided"
ErrRead == "read error"
ErrJSON == "json error"
ErrClient == "couldn't initialize DigitalOcean client"
ErrSizes == "sizes list error"
ErrListNodePools == "list node pools error"
ErrNoCapacity == "no capacity data found for droplet slug"

\* droplet slugs a pool's Size may name
Slugs == {"s-1vcpu-2gb", "s-2vcpu-4gb"}

\* what the size lister may return: nothing, the small size, or both sizes
SizeLists == {{}, {"s-1vcpu-2gb"}, Slugs}

\* the capacity the size lister reports for a slug
SizeCatalog(slug) ==
  IF slug = "s-1vcpu-2gb" THEN [cpus |-> 1, memory |-> 2048]
  ELSE [cpus |-> 2, memory |-> 4096]

PoolID(i) == ToString(i)

DropletID(k) == "droplet-" \o ToString(k)

\* the nodes of pool i: two droplets of its own, one still provisioning
PoolNodes(i) ==
  << [ID |-> ToString(2 * i - 1), DropletID |-> DropletID(2 * i - 1), State |-> "provisioning"],
     [ID |-> ToString(2 * i), DropletID |-> DropletID(2 * i), State |-> "running"] >>

\* godo.KubernetesNodePool values the API may return for pool i
PoolChoices(i) ==
  { [ID |-> PoolID(i), AutoScale |-> a, Size |-> s,
     MinNodes |-> i, MaxNodes |-> i + 2, Nodes |-> PoolNodes(i)] :
       a \in BOOLEAN, s \in Slugs }

AllPools == UNION { PoolChoices(i) : i \in 1..NumPoolIDs }

\* the responses of ListNodePools: sequences of pools with distinct IDs
Listings ==
  UNION { { l \in [1..n -> AllPools] :
              \A i, j \in 1..n : l[i].ID = l[j].ID => i = j } : n \in 0..MaxPools }

\* droplets a cluster node may name: every pool's droplets and one of no pool
Droplets == { DropletID(k) : k \in 1..(2 * NumPoolIDs + 1) }

\* the configuration readers handed to newManager
Tokens == {"", "123-123-123"}
ClusterIDs == {"", "123456"}
URLs == {"", "https://api.digitalocean.com/v2"}
Configs == [cluster_id : ClusterIDs, token : Tokens, url : URLs]
ConfigReaders ==
  {[kind |-> "nil"], [kind |-> "unreadable"], [kind |-> "malformed"]}
    \cup { [kind |-> "json", cfg |-> c] : c \in Configs }

(* ---------------------------- state ------------------------------------ *)

VARIABLES
  m,          \* the *Manager newManager returned, or NilManager
  ret,        \* what the last call returned
  nodePools   \* the ListNodePools response the last call received, if any

vars == <<m, ret, nodePools>>

(* ---------------------------- newManager ------------------------------- *)

\* the Config after the optional read and json.Unmarshal
ParsedConfig(configReader) ==
  IF configReader.kind = "json" THEN configReader.cfg
  ELSE [cluster_id |-> "", token |-> "", url |-> ""]

newManagerClusterIDFirst(configReader, clientErr) ==
  LET cfg == ParsedConfig(configReader) IN
  IF configReader.kind = "unreadable" THEN [m |-> NilManager, err |-> ErrRead]
  ELSE IF configReader.kind = "malformed" THEN [m |-> NilManager, err |-> ErrJSON]
  ELSE IF cfg.cluster_id = "" THEN [m |-> NilManager, err |-> ErrNoClusterID]
  ELSE IF cfg.token = "" THEN [m |-> NilManager, err |-> ErrNoToken]
  ELSE IF clientErr THEN [m |-> NilManager, err |-> ErrClient]
  ELSE [m |-> [clusterID |-> cfg.cluster_id,
               nodeGroups |-> << >>,
               capacityByDropletSlug |-> << >>],
        err |-> Nil]

newManager(configReader, clientErr) ==
  LET cfg == ParsedConfig(configReader) IN
  IF configReader.kind = "unreadable" THEN [m |-> NilManager, err |-> ErrRead]
  ELSE IF configReader.kind = "malformed" THEN [m |-> NilManager, err |-> ErrJSON]
  ELSE IF cfg.token = "" THEN [m |-> NilManager, err |-> ErrNoToken]
  ELSE IF cfg.cluster_id = "" THEN [m |-> NilManager, err |-> ErrNoClusterID]
  ELSE IF clientErr THEN [m |-> NilManager, err |-> ErrClient]
  ELSE [m |-> [clusterID |-> cfg.cluster_id,
               nodeGroups |-> << >>,
               capacityByDropletSlug |-> << >>],
        err |-> Nil]

(* ---------------------------- Refresh ---------------------------------- *)

\* ensureCapacityMap: fill the table from the size lister when it is empty
ensureCapacityMap(table, sizes) ==
  IF DOMAIN table # {} THEN [err |-> Nil, table |-> table]
  ELSE IF sizes.err THEN [err |-> ErrSizes, table |-> table]
  ELSE [err |-> Nil, table |-> [s \in sizes.slugs |-> SizeCatalog(s)]]

RetainedInverted(nodePool) == ~nodePool.AutoScale

RetainedAll(nodePool) == TRUE

\* the auto-scale filter of the loop
Retained(nodePool) == nodePool.AutoScale

NewNodeGroupSwapped(clusterID, nodePool, cap) ==
  [id |-> nodePool.ID, clusterID |-> clusterID, nodePool |-> nodePool,
   minSize |-> nodePool.MaxNodes, maxSize |-> nodePool.MinNodes,
   cpus |-> cap.cpus, memory |-> cap.memory]

\* the NodeGroup built for a retained pool
NewNodeGroup(clusterID, nodePool, cap) ==
  [id |-> nodePool.ID, clusterID |-> clusterID, nodePool |-> nodePool,
   minSize |-> nodePool.MinNodes, maxSize |-> nodePool.MaxNodes,
   cpus |-> cap.cpus, memory |-> cap.memory]

EmptyGroupFromCache(cached) == cached

\* var group []*NodeGroup
EmptyGroup(cached) == << >>

RECURSIVE BuildGroupsSkipUnknown(_, _, _, _, _)
BuildGroupsSkipUnknown(clusterID, table, pools, i, group) ==
  IF i > Len(pools) THEN [err |-> Nil, group |-> group]
  ELSE IF ~Retained(pools[i])
    THEN BuildGroupsSkipUnknown(clusterID, table, pools, i + 1, group)
  ELSE IF pools[i].Size \notin DOMAIN table
    THEN BuildGroupsSkipUnknown(clusterID, table, pools, i + 1, group)
  ELSE BuildGroupsSkipUnknown(clusterID, table, pools, i + 1,
         Append(group, NewNodeGroup(clusterID, pools[i], table[pools[i].Size])))

RECURSIVE BuildGroupsStopAtUnknown(_, _, _, _, _)
BuildGroupsStopAtUnknown(clusterID, table, pools, i, group) ==
  IF i > Len(pools) THEN [err |-> Nil, group |-> group]
  ELSE IF ~Retained(pools[i])
    THEN BuildGroupsStopAtUnknown(clusterID, table, pools, i + 1, group)
  ELSE IF pools[i].Size \notin DOMAIN table
    THEN [err |-> Nil, group |-> group]
  ELSE BuildGroupsStopAtUnknown(clusterID, table, pools, i + 1,
         Append(group, NewNodeGroup(clusterID, pools[i], table[pools[i].Size])))

RECURSIVE BuildGroupsLookupFirst(_, _, _, _, _)
BuildGroupsLookupFirst(clusterID, table, pools, i, group) ==
  IF i > Len(pools) THEN [err |-> Nil, group |-> group]
  ELSE IF pools[i].Size \notin DOMAIN table
    THEN [err |-> ErrNoCapacity, group |-> group]
  ELSE IF ~Retained(pools[i])
    THEN BuildGroupsLookupFirst(clusterID, table, pools, i + 1, group)
  ELSE BuildGroupsLookupFirst(clusterID, table, pools, i + 1,
         Append(group, NewNodeGroup(clusterID, pools[i], table[pools[i].Size])))

\* the loop over the listing, from pool i on, with the groups built so far
RECURSIVE BuildGroups(_, _, _, _, _)
BuildGroups(clusterID, table, pools, i, group) ==
  IF i > Len(pools) THEN [err |-> Nil, group |-> group]
  ELSE IF ~Retained(pools[i])
    THEN BuildGroups(clusterID, table, pools, i + 1, group)
  ELSE IF pools[i].Size \notin DOMAIN table
    THEN [err |-> ErrNoCapacity, group |-> group]
  ELSE BuildGroups(clusterID, table, pools, i + 1,
         Append(group, NewNodeGroup(clusterID, pools[i], table[pools[i].Size])))

PublishPartial(cached, built) == built.group

PublishAppend(cached, built) ==
  IF built.err = Nil THEN cached \o built.group ELSE cached

\* what the loop's outcome leaves in m.nodeGroups
Publish(cached, built) == IF built.err = Nil THEN built.group ELSE cached

\* Manager.Refresh: sizes is the outcome of the size lister, listing the
\* outcome of ListNodePools
Refresh(mgr, sizes, listing) ==
  LET ensured == ensureCapacityMap(mgr.capacityByDropletSlug, sizes)
      m1 == [mgr EXCEPT !.capacityByDropletSlug = ensured.table]
      built == BuildGroups(m1.clusterID, m1.capacityByDropletSlug,
                           listing.pools, 1, EmptyGroup(m1.nodeGroups))
  IN IF ensured.err # Nil THEN [m |-> m1, err |-> ensured.err, listed |-> FALSE]
     ELSE IF listing.err THEN [m |-> m1, err |-> ErrListNodePools, listed |-> FALSE]
     ELSE [m |-> [m1 EXCEPT !.nodeGroups = Publish(m1.nodeGroups, built)],
           err |-> built.err, listed |-> TRUE]

(* ---------------------------- NodeGroupForNode ------------------------- *)

toProviderID(dropletID) == "digitalocean://" \o dropletID

\* the provider IDs of the instances of a node group
InstanceIDs(group) ==
  { toProviderID(group.nodePool.Nodes[k].DropletID) :
      k \in 1..Len(group.nodePool.Nodes) }

\* the first cached group one of whose instances has the node's provider ID
RECURSIVE NodeGroupForNode(_, _, _)
NodeGroupForNode(groups, i, providerID) ==
  IF i > Len(groups) THEN NilGroup
  ELSE IF providerID \in InstanceIDs(groups[i]) THEN groups[i]
  ELSE NodeGroupForNode(groups, i + 1, providerID)

(* ---------------------------- actions ---------------------------------- *)

Init ==
  /\ m = NilManager
  /\ ret = [op |-> "none"]
  /\ nodePools = << >>

NewManagerCall ==
  /\ m = NilManager
  /\ \E configReader \in ConfigReaders, clientErr \in BOOLEAN :
       \E r \in {newManager(configReader, clientErr)} :
       /\ m' = r.m
       /\ ret' = [op |-> "newManager", err |-> r.err, configReader |-> configReader]
  /\ nodePools' = << >>

\* the size lister is called only while the capacity table is empty
SizeOutcomes(mgr) ==
  IF DOMAIN mgr.capacityByDropletSlug # {} THEN {NotCalled}
  ELSE {[err |-> TRUE, slugs |-> {}]}
         \cup { [err |-> FALSE, slugs |-> S] : S \in SizeLists }

\* ListNodePools is called only once the capacity table is ensured
ListOutcomes(mgr, sizes) ==
  IF ensureCapacityMap(mgr.capacityByDropletSlug, sizes).err # Nil THEN {NotCalled}
  ELSE {[err |-> TRUE, pools |-> << >>]}
         \cup { [err |-> FALSE, pools |-> l] : l \in Listings }

RefreshCall ==
  /\ m # NilManager
  /\ \E sizes \in SizeOutcomes(m) :
       \E listing \in ListOutcomes(m, sizes) :
         \E r \in {Refresh(m, sizes, listing)} :
         /\ m' = r.m
         /\ ret' = [op |-> "Refresh", err |-> r.err, listed |-> r.listed,
                    cached |-> Len(m.nodeGroups)]
         /\ nodePools' = IF r.listed THEN listing.pools ELSE << >>

NodeGroupForNodeCall ==
  /\ m # NilManager
  /\ \E d \in Droplets :
       ret' = [op |-> "NodeGroupForNode", err |-> Nil, droplet |-> d,
               group |-> NodeGroupForNode(m.nodeGroups, 1, toProviderID(d))]
  /\ nodePools' = << >>
  /\ UNCHANGED m

Next == NewManagerCall \/ RefreshCall \/ NodeGroupForNodeCall

Spec == Init /\ [][Next]_vars

(* ---------------------------- properties ------------------------------- *)

IsAutoScale(pool) == pool.AutoScale

\* the pools of a listing that are marked auto-scalable, in listing order
AutoScalable(pools) == SelectSeq(pools, IsAutoScale)

\* how often a pool ID occurs among the cached groups
Occurrences(groups, id) == Cardinality({ k \in 1..Len(groups) : groups[k].id = id })

RefreshReturned == ret.op = "Refresh"

RefreshSucceeded == ret.op = "Refresh" /\ ret.err = Nil

\* some retained pool of the last listing has a size the capacity table lacks
UnknownRetainedSize ==
  \E k \in 1..Len(nodePools) :
    /\ nodePools[k].AutoScale
    /\ nodePools[k].Size \notin DOMAIN m.capacityByDropletSlug

\* C1: after a successful Refresh the cache holds one entry per listed pool
\* whose AutoScale flag is true, in listing order, and none for any other pool.
C1_SkipsNonAutoScale ==
  RefreshSucceeded =>
    /\ Len(m.nodeGroups) = Len(AutoScalable(nodePools))
    /\ \A k \in 1..Len(m.nodeGroups) :
         /\ m.nodeGroups[k].id = AutoScalable(nodePools)[k].ID
         /\ m.nodeGroups[k].nodePool = AutoScalable(nodePools)[k]
    /\ \A k \in 1..Len(nodePools) :
         ~nodePools[k].AutoScale => Occurrences(m.nodeGroups, nodePools[k].ID) = 0

C1_Witness ==
  /\ RefreshSucceeded
  /\ Len(nodePools) = 2
  /\ ~nodePools[1].AutoScale
  /\ nodePools[2].AutoScale
  /\ Len(m.nodeGroups) = 1

\* C2: a Refresh whose listing holds no auto-scalable pool returns nil and
\* leaves an empty cache, whatever was cached before.
C2_ZeroPoolsNoError ==
  (RefreshReturned /\ ret.listed /\ Len(AutoScalable(nodePools)) = 0) =>
    (ret.err = Nil /\ Len(m.nodeGroups) = 0)

C2_Witness ==
  /\ RefreshReturned /\ ret.listed
  /\ Len(nodePools) > 0
  /\ Len(AutoScalable(nodePools)) = 0
  /\ ret.cached > 0
  /\ ret.err = Nil
  /\ m.nodeGroups = << >>

C4_FullReplace ==
  [][ m # NilManager =>
        IF ret'.op = "Refresh" /\ ret'.err = Nil
        THEN \A i \in 1..NumPoolIDs :
               Occurrences(m'.nodeGroups, PoolID(i)) =
                 IF \E k \in 1..Len(nodePools') :
                      nodePools'[k].ID = PoolID(i) /\ nodePools'[k].AutoScale
                 THEN 1 ELSE 0
        ELSE m'.nodeGroups = m.nodeGroups ]_vars

C4_Witness ==
  /\ RefreshSucceeded
  /\ ret.cached = 2
  /\ Len(m.nodeGroups) = 1
  /\ Len(nodePools) = 2

\* C5: a Refresh that returns an error leaves the cached list as it was.
C5_ErrorKeepsCache ==
  [][ (m # NilManager /\ ret'.op = "Refresh" /\ ret'.err # Nil)
        => m'.nodeGroups = m.nodeGroups ]_vars

C5_Witness ==
  /\ RefreshReturned
  /\ ret.err = ErrNoCapacity
  /\ Len(nodePools) = 2
  /\ nodePools[1].AutoScale
  /\ nodePools[1].Size \in DOMAIN m.capacityByDropletSlug
  /\ Len(m.nodeGroups) = 1
  /\ m.nodeGroups[1].id # nodePools[1].ID

\* C6: the cache starts empty and changes only to the complete filtered
\* result of the response a Refresh just received, never to a part of it.
C6_NoPartialUpdate ==
  [][ IF m = NilManager
      THEN m' # NilManager => m'.nodeGroups = << >>
      ELSE \/ m'.nodeGroups = m.nodeGroups
           \/ /\ ret'.op = "Refresh" /\ ret'.listed
              /\ ~UnknownRetainedSize'
              /\ Len(m'.nodeGroups) = Len(AutoScalable(nodePools'))
              /\ \A k \in 1..Len(m'.nodeGroups) :
                   m'.nodeGroups[k].nodePool = AutoScalable(nodePools')[k] ]_vars

C6_Witness ==
  /\ RefreshReturned
  /\ ret.err = ErrNoCapacity
  /\ ret.cached = 2
  /\ Len(m.nodeGroups) = 2
  /\ Len(nodePools) = 2
  /\ nodePools[1].AutoScale
  /\ nodePools[1].Size \in DOMAIN m.capacityByDropletSlug
  /\ m.nodeGroups[1].nodePool # nodePools[1]

\* the cached groups whose pool lists a node with the given droplet
Owners(dropletID) ==
  { k \in 1..Len(m.nodeGroups) :
      \E n \in 1..Len(m.nodeGroups[k].nodePool.Nodes) :
        m.nodeGroups[k].nodePool.Nodes[n].DropletID = dropletID }

C8_FaithfulTranslation ==
  RefreshSucceeded =>
    \A k \in 1..Len(m.nodeGroups) :
      /\ k <= Len(AutoScalable(nodePools))
      /\ LET g == m.nodeGroups[k]
             p == AutoScalable(nodePools)[k]
         IN /\ g.id = p.ID
            /\ g.minSize = p.MinNodes
            /\ g.maxSize = p.MaxNodes
            /\ g.clusterID = m.clusterID
            /\ p.Size \in DOMAIN m.capacityByDropletSlug
            /\ g.cpus = m.capacityByDropletSlug[p.Size].cpus
            /\ g.memory = m.capacityByDropletSlug[p.Size].memory

C8_Witness ==
  /\ RefreshSucceeded
  /\ Len(m.nodeGroups) = 2
  /\ m.nodeGroups[1].cpus # m.nodeGroups[2].cpus
  /\ m.nodeGroups[1].minSize # m.nodeGroups[2].minSize

NewManagerOutcome ==
  ret.op = "newManager" =>
    LET r == ret.configReader IN
    /\ (r.kind = "nil" \/ (r.kind = "json" /\ r.cfg.token = ""))
         => ret.err = ErrNoToken
    /\ (r.kind = "json" /\ r.cfg.token # "" /\ r.cfg.cluster_id = "")
         => ret.err = ErrNoClusterID
    /\ ret.err # Nil => m = NilManager
    /\ ret.err = Nil =>
         /\ r.kind = "json" /\ r.cfg.token # "" /\ r.cfg.cluster_id # ""
         /\ m # NilManager
         /\ m.clusterID = r.cfg.cluster_id
         /\ m.nodeGroups = << >>
         /\ DOMAIN m.capacityByDropletSlug = {}

\* C10: newManager fails with the token error first, then the cluster-ID
\* error, returns no manager when it fails, returns a manager with the
\* configured cluster ID, no groups and no capacities when it succeeds, and
\* no later call changes the cluster ID.
C10_NewManager ==
  /\ []NewManagerOutcome
  /\ [][m # NilManager => (m' # NilManager /\ m'.clusterID = m.clusterID)]_vars

C10_Witness ==
  /\ ret.op = "newManager"
  /\ ret.configReader.kind = "json"
  /\ ret.configReader.cfg.token = ""
  /\ ret.configReader.cfg.cluster_id = ""
  /\ ret.err = ErrNoToken
  /\ m = NilManager

====
